---------------------------- MODULE Spec2Model ----------------------------
(***************************************************************************)
(* tokio-io: the framing layer (Framed / FramedRead / FramedWrite) over a  *)
(* non-blocking transport, with the length-delimited codec.                *)
(*                                                                         *)
(* From the sources: AsyncRead::read_buf and AsyncWrite::write_buf         *)
(* (src/src/lib.rs), Framed and Fuse (src/src/framed.rs) and the scripted  *)
(* transport Mock of the test suite (src/tests/length_delimited.rs).       *)
(* The read pump, the write pump and the length-delimited codec live in    *)
(* framed_read.rs, framed_write.rs and codec/length_delimited.rs, which    *)
(* are not among the sources: they are modelled from spec.md sections 4.2, *)
(* 4.3, 4.4 and 4.6.                                                       *)
(***************************************************************************)
EXTENDS Integers, Sequences, FiniteSets, TLC

(***************************************************************************)
(* Bounds of the model.                                                    *)
(***************************************************************************)
\* Most frames of one stream (inbound), and longest payload.
MaxFrames == 2
MaxLen == 2

(***************************************************************************)
(* Results.  Every result is a record of one shape, so that any two can be *)
(* compared.                                                               *)
(***************************************************************************)
NoBytes == << >>

Res(kind, frame, err) == [kind |-> kind, frame |-> frame, err |-> err]
\* Poll results: Ready(Some(frame)), Ready(None), NotReady, Err(e).
ReadyFrame(f) == Res("Frame", f, "")
ReadyNone == Res("None", NoBytes, "")
NotReady == Res("NotReady", NoBytes, "")
Failed(e) == Res("Err", NoBytes, e)
\* The result of an operation other than a poll (a state before the first poll).
Idle == Res("Idle", NoBytes, "")

(***************************************************************************)
(* Byte strings.                                                           *)
(***************************************************************************)
Take(s, n) == SubSeq(s, 1, n)
Drop(s, n) == SubSeq(s, n + 1, Len(s))

RECURSIVE Pow(_, _)
Pow(b, e) == IF e = 0 THEN 1 ELSE b * Pow(b, e - 1)

\* The unsigned value of a big-endian byte string.
RECURSIVE UintBE(_)
UintBE(bs) ==
  IF bs = << >> THEN 0
  ELSE UintBE(Take(bs, Len(bs) - 1)) * 256 + bs[Len(bs)]

Reverse(s) == [i \in 1..Len(s) |-> s[Len(s) + 1 - i]]

ReadUint(bs, big) == IF big THEN UintBE(bs) ELSE UintBE(Reverse(bs))

WriteUintBE(n, w) == [i \in 1..w |-> (n \div Pow(256, w - i)) % 256]

WriteUint(n, w, big) ==
  IF big THEN WriteUintBE(n, w) ELSE Reverse(WriteUintBE(n, w))

(***************************************************************************)
(* The varint length field: LEB128, at most MaxVarintBytes bytes.          *)
(***************************************************************************)
MaxVarintBytes == 10

RECURSIVE EncodeVarint(_)
EncodeVarint(n) ==
  IF n < 128 THEN << n >>
  ELSE << 128 + (n % 128) >> \o EncodeVarint(n \div 128)

\* The value bits of the first VarintExact bytes are summed exactly; a bit
\* set in a later byte makes the value VarintHuge, which stands for every
\* value of 2^28 or more.
VarintExact == 4
VarintHuge == Pow(128, VarintExact)

\* Scanning byte i of buf: "ok" with the value and the bytes used, "incomplete"
\* when buf ends inside the varint, "overflow" past MaxVarintBytes bytes.
RECURSIVE VarintScan(_, _, _)
VarintScan(buf, i, acc) ==
  IF i > MaxVarintBytes THEN [status |-> "overflow", value |-> 0, used |-> 0]
  ELSE IF i > Len(buf) THEN [status |-> "incomplete", value |-> 0, used |-> 0]
  ELSE LET v == IF buf[i] % 128 = 0 THEN acc
                ELSE IF i > VarintExact THEN VarintHuge
                ELSE acc + (buf[i] % 128) * Pow(128, i - 1)
       IN IF buf[i] < 128
          THEN [status |-> "ok", value |-> v, used |-> i]
          ELSE VarintScan(buf, i + 1, v)

DecodeVarint(buf) == VarintScan(buf, 1, 0)

(***************************************************************************)
(* Length-delimited configuration (Builder): width of the length field     *)
(* (lfl), its offset, the adjustment, the bytes skipped, the endianness,   *)
(* or a varint length field.                                               *)
(***************************************************************************)
Config(lfl, offset, adj, skip, big, varint) ==
  [lfl |-> lfl, offset |-> offset, adj |-> adj, skip |-> skip,
   big |-> big, varint |-> varint]

\* num_skip defaults to length_field_offset + length_field_length.
Builder(lfl, offset, adj, big) == Config(lfl, offset, adj, offset + lfl, big, FALSE)
BuilderVarint == Config(0, 0, 0, 0, TRUE, TRUE)

(***************************************************************************)
(* The decoder: state Head or Data(n), the latter with the bytes to skip.  *)
(***************************************************************************)
Head_ == [kind |-> "Head", n |-> 0, skip |-> 0]
Data_(n, skip) == [kind |-> "Data", n |-> n, skip |-> skip]

DecodeRes(res, frame, err, state, buf) ==
  [res |-> res, frame |-> frame, err |-> err, state |-> state, buf |-> buf]

\* State Data(n): wait for num_skip + n bytes, discard num_skip, yield n bytes.
decode_data(state, buf) ==
  IF Len(buf) < state.skip + state.n
  THEN DecodeRes("None", NoBytes, "", state, buf)
  ELSE DecodeRes("Some", SubSeq(buf, state.skip + 1, state.skip + state.n), "",
                 Head_, Drop(buf, state.skip + state.n))

\* State Head: the length field n and the bytes of the header, once buffered.
decode_head(c, buf) ==
  IF c.varint
  THEN LET v == DecodeVarint(buf)
       IN [status |-> v.status, n |-> v.value, skip |-> v.used]
  ELSE IF Len(buf) < c.offset + c.lfl
       THEN [status |-> "incomplete", n |-> 0, skip |-> 0]
       ELSE [status |-> "ok",
             n |-> ReadUint(SubSeq(buf, c.offset + 1, c.offset + c.lfl), c.big),
             skip |-> c.skip]

\* Decoder::decode of the length-delimited codec.
decode(c, max, state, buf) ==
  IF state.kind = "Data" THEN decode_data(state, buf)
  ELSE LET h == decode_head(c, buf)
           payload_len == h.n + c.adj
       IN CASE h.status = "incomplete" -> DecodeRes("None", NoBytes, "", state, buf)
            [] h.status = "overflow" -> DecodeRes("Err", NoBytes, "InvalidData", state, buf)
            [] OTHER ->
                 IF payload_len < 0 \/ payload_len > max
                 THEN DecodeRes("Err", NoBytes, "InvalidData", state, buf)
                 ELSE decode_data(Data_(payload_len, h.skip), buf)

\* Decoder::eof, the default: an error iff bytes remain.
eof_(buf) ==
  IF buf = << >> THEN DecodeRes("None", NoBytes, "", Head_, buf)
  ELSE DecodeRes("Err", NoBytes, "UnexpectedEof", Head_, buf)

\* Encoder::encode of the length-delimited codec: the length field, then the
\* payload; no context bytes.
encode(c, item, dst) ==
  LET n == Len(item) - c.adj
  IN IF c.varint
     THEN IF n < 0 THEN [res |-> "Err", err |-> "InvalidInput", buf |-> dst]
          ELSE [res |-> "Ok", err |-> "", buf |-> dst \o EncodeVarint(n) \o item]
     ELSE IF n < 0 \/ n >= Pow(256, c.lfl)
          THEN [res |-> "Err", err |-> "InvalidInput", buf |-> dst]
          ELSE [res |-> "Ok", err |-> "", buf |-> dst \o WriteUint(n, c.lfl, c.big) \o item]


(***************************************************************************)
(* The transport of the test suite: Mock, a queue of scripted results.     *)
(***************************************************************************)
Op(kind, data, err) == [kind |-> kind, data |-> data, err |-> err]
DataOp(bytes) == Op("Data", bytes, "")
FlushOp == Op("Flush", NoBytes, "")
WouldBlockOp == Op("Err", NoBytes, "WouldBlock")
\* An I/O error other than WouldBlock.
BrokenOp == Op("Err", NoBytes, "BrokenPipe")

\* Mock::read: pops the next scripted result; the bytes of a Data are copied
\* to the front of dst; an empty script reads as Ok(0); a Flush panics.
Mock_read(calls) ==
  IF calls = << >>
  THEN [res |-> "Ok", n |-> 0, bytes |-> NoBytes, err |-> "", calls |-> calls]
  ELSE LET op == Head(calls)
       IN CASE op.kind = "Data" ->
                 [res |-> "Ok", n |-> Len(op.data), bytes |-> op.data,
                  err |-> "", calls |-> Tail(calls)]
            [] op.kind = "Err" ->
                 [res |-> "Err", n |-> 0, bytes |-> NoBytes, err |-> op.err,
                  calls |-> Tail(calls)]
            [] OTHER ->
                 [res |-> "Panic", n |-> 0, bytes |-> NoBytes, err |-> "panic",
                  calls |-> Tail(calls)]

\* impl Read for Fuse: the transport's read.
Fuse_read(calls) == Mock_read(calls)

\* read_buf without advance_mut: the bytes read never join the buffer.
read_buf_no_advance(calls, buf, room) ==
  IF room = 0
  THEN [res |-> "Ready", n |-> 0, err |-> "", buf |-> buf, calls |-> calls]
  ELSE LET r == Fuse_read(calls)
       IN IF r.res = "Ok"
          THEN [res |-> "Ready", n |-> r.n, err |-> "", buf |-> buf, calls |-> r.calls]
          ELSE IF r.err = "WouldBlock"
               THEN [res |-> "NotReady", n |-> 0, err |-> "", buf |-> buf, calls |-> r.calls]
               ELSE [res |-> "Err", n |-> 0, err |-> r.err, buf |-> buf, calls |-> r.calls]

\* read_buf advancing by one byte too few.
read_buf_short(calls, buf, room) ==
  IF room = 0
  THEN [res |-> "Ready", n |-> 0, err |-> "", buf |-> buf, calls |-> calls]
  ELSE LET r == Fuse_read(calls)
       IN IF r.res = "Ok"
          THEN [res |-> "Ready", n |-> r.n, err |-> "",
                buf |-> buf \o Take(r.bytes, r.n - 1), calls |-> r.calls]
          ELSE IF r.err = "WouldBlock"
               THEN [res |-> "NotReady", n |-> 0, err |-> "", buf |-> buf, calls |-> r.calls]
               ELSE [res |-> "Err", n |-> 0, err |-> r.err, buf |-> buf, calls |-> r.calls]

\* read_buf without the WouldBlock arm's own result: WouldBlock reads as
\* Ready(0).
read_buf_block_as_zero(calls, buf, room) ==
  IF room = 0
  THEN [res |-> "Ready", n |-> 0, err |-> "", buf |-> buf, calls |-> calls]
  ELSE LET r == Fuse_read(calls)
       IN IF r.res = "Ok"
          THEN [res |-> "Ready", n |-> r.n, err |-> "",
                buf |-> buf \o Take(r.bytes, r.n), calls |-> r.calls]
          ELSE IF r.err = "WouldBlock"
               THEN [res |-> "Ready", n |-> 0, err |-> "", buf |-> buf, calls |-> r.calls]
               ELSE [res |-> "Err", n |-> 0, err |-> r.err, buf |-> buf, calls |-> r.calls]

\* AsyncRead::read_buf on a buffer with `room` bytes of remaining capacity.
read_buf(calls, buf, room) ==
  IF room = 0
  THEN [res |-> "Ready", n |-> 0, err |-> "", buf |-> buf, calls |-> calls]
  ELSE LET r == Fuse_read(calls)
       IN IF r.res = "Ok"
          THEN [res |-> "Ready", n |-> r.n, err |-> "",
                buf |-> buf \o Take(r.bytes, r.n), calls |-> r.calls]
          ELSE IF r.err = "WouldBlock"
               THEN [res |-> "NotReady", n |-> 0, err |-> "", buf |-> buf, calls |-> r.calls]
               ELSE [res |-> "Err", n |-> 0, err |-> r.err, buf |-> buf, calls |-> r.calls]

\* A Fuse whose decode goes to the codec's eof.
Fuse_decode_as_eof(c, max, state, buf) == eof_(buf)

\* A Fuse whose decode works on a copy of the buffer.
Fuse_decode_unconsumed(c, max, state, buf) ==
  [decode(c, max, state, buf) EXCEPT !.buf = buf]

\* impl Decoder for Fuse: decode and eof go to the one codec.
Fuse_decode(c, max, state, buf) == decode(c, max, state, buf)
Fuse_eof(buf) == eof_(buf)

(***************************************************************************)
(* The read pump, FramedRead: a record of the transport's script, the read *)
(* buffer, the decoder's state and eof_seen.                               *)
(***************************************************************************)
\* The buffer grows before a read: room for any chunk of the stream.
ReadRoom == (MaxFrames + 1) * (MaxLen + 4)

PollRes(fr, res, reads) == [fr |-> fr, res |-> res, reads |-> reads]

RECURSIVE poll_loop(_, _, _, _)
poll_loop(c, max, fr, reads) ==
  IF fr.eof
  THEN LET e == Fuse_eof(fr.buffer)
       IN CASE e.res = "Some" -> PollRes([fr EXCEPT !.buffer = e.buf], ReadyFrame(e.frame), reads)
            [] e.res = "Err" -> PollRes(fr, Failed(e.err), reads)
            [] OTHER -> IF e.buf = << >> THEN PollRes(fr, ReadyNone, reads)
                        ELSE PollRes(fr, Failed("Other"), reads)
  ELSE LET d == Fuse_decode(c, max, fr.state, fr.buffer)
       IN CASE d.res = "Some" ->
                 PollRes([fr EXCEPT !.buffer = d.buf, !.state = d.state],
                         ReadyFrame(d.frame), reads)
            [] d.res = "Err" -> PollRes(fr, Failed(d.err), reads)
            [] OTHER ->
                 LET r == read_buf(fr.calls, d.buf, ReadRoom)
                     next == [fr EXCEPT !.calls = r.calls, !.buffer = r.buf,
                                        !.state = d.state]
                 IN CASE r.res = "NotReady" -> PollRes(next, NotReady, reads + 1)
                      [] r.res = "Err" -> PollRes(next, Failed(r.err), reads + 1)
                      [] r.n = 0 -> poll_loop(c, max, [next EXCEPT !.eof = TRUE], reads + 1)
                      [] OTHER -> poll_loop(c, max, next, reads + 1)

\* FramedRead::poll; the result carries the number of transport reads made.
FramedRead_poll(c, max, fr) == poll_loop(c, max, fr, 0)

\* A Framed whose poll reads the transport before it looks at the buffer.
Framed_poll_read_first(c, max, fr) ==
  LET r == read_buf(fr.calls, fr.buffer, ReadRoom)
      next == [fr EXCEPT !.calls = r.calls, !.buffer = r.buf]
  IN CASE r.res = "NotReady" -> PollRes(next, NotReady, 1)
       [] r.res = "Err" -> PollRes(next, Failed(r.err), 1)
       [] OTHER -> poll_loop(c, max, [next EXCEPT !.eof = (@ \/ r.n = 0)], 1)

\* impl Stream for Framed: poll is the read pump's.
Framed_poll(c, max, fr) == FramedRead_poll(c, max, fr)

(***************************************************************************)
(* The write side of the transport.                                        *)
(***************************************************************************)
\* Mock::write: pops the next scripted result; a Data is the prefix of src
\* the script expects, and that many bytes are written; an empty script
\* writes Ok(0).  A Data that is no prefix of src, or a Flush, panics.
Mock_write(calls, src) ==
  IF calls = << >>
  THEN [res |-> "Ok", n |-> 0, err |-> "", calls |-> calls]
  ELSE LET op == Head(calls)
       IN CASE op.kind = "Err" ->
                 [res |-> "Err", n |-> 0, err |-> op.err, calls |-> Tail(calls)]
            [] op.kind = "Data" /\ Take(src, Len(op.data)) = op.data ->
                 [res |-> "Ok", n |-> Len(op.data), err |-> "", calls |-> Tail(calls)]
            [] OTHER -> [res |-> "Panic", n |-> 0, err |-> "panic", calls |-> Tail(calls)]

\* Mock::flush: pops the next scripted result; an empty script flushes; a
\* Data panics.
Mock_flush(calls) ==
  IF calls = << >>
  THEN [res |-> "Ok", err |-> "", calls |-> calls]
  ELSE LET op == Head(calls)
       IN CASE op.kind = "Err" -> [res |-> "Err", err |-> op.err, calls |-> Tail(calls)]
            [] op.kind = "Flush" -> [res |-> "Ok", err |-> "", calls |-> Tail(calls)]
            [] OTHER -> [res |-> "Panic", err |-> "panic", calls |-> Tail(calls)]

\* A Fuse whose write does not reach the transport and reports WouldBlock.
Fuse_write_blocked(calls, src) ==
  [res |-> "Err", n |-> 0, err |-> "WouldBlock",
   calls |-> IF calls = << >> THEN calls ELSE Tail(calls)]

\* impl Write for Fuse: the transport's write and flush.
Fuse_write(calls, src) == Mock_write(calls, src)
Fuse_flush(calls) == Mock_flush(calls)

\* A write_buf that advances the buffer one byte past what was written.
write_buf_over_advance(calls, buf) ==
  IF buf = << >>
  THEN [res |-> "Ready", n |-> 0, err |-> "", buf |-> buf, calls |-> calls]
  ELSE LET r == Fuse_write(calls, buf)
       IN IF r.res = "Ok"
          THEN [res |-> "Ready", n |-> r.n, err |-> "", buf |-> Drop(buf, r.n + 1),
                calls |-> r.calls]
          ELSE IF r.err = "WouldBlock"
               THEN [res |-> "NotReady", n |-> 0, err |-> "", buf |-> buf, calls |-> r.calls]
               ELSE [res |-> "Err", n |-> 0, err |-> r.err, buf |-> buf, calls |-> r.calls]

\* A write_buf without try_nb: WouldBlock is returned as an error.
write_buf_block_as_err(calls, buf) ==
  IF buf = << >>
  THEN [res |-> "Ready", n |-> 0, err |-> "", buf |-> buf, calls |-> calls]
  ELSE LET r == Fuse_write(calls, buf)
       IN IF r.res = "Ok"
          THEN [res |-> "Ready", n |-> r.n, err |-> "", buf |-> Drop(buf, r.n),
                calls |-> r.calls]
          ELSE [res |-> "Err", n |-> 0, err |-> r.err, buf |-> buf, calls |-> r.calls]

\* A write_buf that takes a write of no bytes for WouldBlock.
write_buf_zero_as_block(calls, buf) ==
  IF buf = << >>
  THEN [res |-> "Ready", n |-> 0, err |-> "", buf |-> buf, calls |-> calls]
  ELSE LET r == Fuse_write(calls, buf)
       IN IF r.res = "Ok" /\ r.n > 0
          THEN [res |-> "Ready", n |-> r.n, err |-> "", buf |-> Drop(buf, r.n),
                calls |-> r.calls]
          ELSE IF r.res = "Ok" \/ r.err = "WouldBlock"
               THEN [res |-> "NotReady", n |-> 0, err |-> "", buf |-> buf, calls |-> r.calls]
               ELSE [res |-> "Err", n |-> 0, err |-> r.err, buf |-> buf, calls |-> r.calls]

\* AsyncWrite::write_buf: the bytes written leave the head of the buffer.
write_buf(calls, buf) ==
  IF buf = << >>
  THEN [res |-> "Ready", n |-> 0, err |-> "", buf |-> buf, calls |-> calls]
  ELSE LET r == Fuse_write(calls, buf)
       IN IF r.res = "Ok"
          THEN [res |-> "Ready", n |-> r.n, err |-> "", buf |-> Drop(buf, r.n),
                calls |-> r.calls]
          ELSE IF r.err = "WouldBlock"
               THEN [res |-> "NotReady", n |-> 0, err |-> "", buf |-> buf, calls |-> r.calls]
               ELSE [res |-> "Err", n |-> 0, err |-> r.err, buf |-> buf, calls |-> r.calls]

\* impl Encoder for Fuse: encode goes to the one codec.
Fuse_encode(c, item, dst) == encode(c, item, dst)

(***************************************************************************)
(* The write pump, FramedWrite: a record of the transport's script, the    *)
(* write buffer and sink, the bytes the transport has accepted.            *)
(***************************************************************************)
\* The soft high-water mark of the write buffer (8 KiB in the program),
\* scaled to the frames of the model.
BACKPRESSURE_BOUNDARY == 3

\* Results of the sink: Ready (accepted, or all flushed), NotReady handing
\* the frame back, Err(e).
SinkReady == Res("Ready", NoBytes, "")
SinkNotReady(item) == Res("NotReady", item, "")

\* A result with what the call did: ios counts the transport calls, met is
\* the last transport result, drains the calls of poll_complete made and
\* drained the buffer that the last transport call left.
SinkRes(fw, res, ios, met, drains, drained) ==
  [fw |-> fw, res |-> res, ios |-> ios, met |-> met, drains |-> drains,
   drained |-> drained]

\* What a call asked of the transport: whether it called write_buf (wrote),
\* the calls of flush it made, whether a flush was made with bytes still in
\* the buffer (dirty), and whether a write_buf left the buffer no shorter and
\* the loop went on (stalled).
NoLog == [wrote |-> FALSE, flushes |-> 0, dirty |-> FALSE, stalled |-> FALSE]

Logged(log, call, buf) ==
  IF call = "write" THEN [log EXCEPT !.wrote = TRUE]
  ELSE [log EXCEPT !.flushes = @ + 1, !.dirty = (@ \/ buf # << >>)]

RECURSIVE pc_loop(_, _)
\* The drain loop after write_buf returned r.
pc_written(fw, ios, r) ==
  LET next == [fw EXCEPT !.calls = r.calls, !.buffer = r.buf,
                         !.sink = @ \o Take(fw.buffer, r.n),
                         !.log = Logged(@, "write", fw.buffer)]
  IN CASE r.res = "NotReady" -> SinkRes(next, NotReady, ios + 1, "WouldBlock", 1, next.buffer)
       [] r.res = "Err" -> SinkRes(next, Failed(r.err), ios + 1, "Err", 1, next.buffer)
       [] r.n = 0 -> SinkRes(next, Failed("WriteZero"), ios + 1, "Zero", 1, next.buffer)
       [] OTHER ->
            pc_loop([next EXCEPT !.log.stalled =
                                   (@ \/ Len(next.buffer) >= Len(fw.buffer))],
                    ios + 1)

\* The end of the drain after flush returned f.
pc_flushed(fw, ios, f) ==
  LET next == [fw EXCEPT !.calls = f.calls,
                         !.log = Logged(@, "flush", fw.buffer)]
  IN CASE f.res = "Ok" -> SinkRes(next, SinkReady, ios + 1, "Flush", 1, next.buffer)
       [] f.err = "WouldBlock" -> SinkRes(next, NotReady, ios + 1, "WouldBlock", 1, next.buffer)
       [] OTHER -> SinkRes(next, Failed(f.err), ios + 1, "Err", 1, next.buffer)

pc_loop(fw, ios) ==
  IF fw.buffer # << >>
  THEN pc_written(fw, ios, write_buf(fw.calls, fw.buffer))
  ELSE pc_flushed(fw, ios, Fuse_flush(fw.calls))

\* FramedWrite::poll_complete.
FramedWrite_poll_complete(fw) == pc_loop(fw, 0)

\* FramedWrite::start_send: at or above the boundary one poll_complete, whose
\* result is not looked at; the buffer it leaves decides.
FramedWrite_start_send(c, fw, item) ==
  LET full == Len(fw.buffer) >= BACKPRESSURE_BOUNDARY
      pc == IF full THEN FramedWrite_poll_complete(fw)
            ELSE SinkRes(fw, SinkReady, 0, "None", 0, fw.buffer)
      e == Fuse_encode(c, item, pc.fw.buffer)
  IN IF Len(pc.fw.buffer) >= BACKPRESSURE_BOUNDARY
     THEN [pc EXCEPT !.res = SinkNotReady(item)]
     ELSE IF e.res = "Ok"
          THEN [pc EXCEPT !.fw.buffer = e.buf, !.res = SinkReady]
          ELSE [pc EXCEPT !.res = Failed(e.err)]

\* A Framed whose start_send encodes without asking the write pump.
Framed_start_send_unchecked(c, fw, item) ==
  SinkRes([fw EXCEPT !.buffer = Fuse_encode(c, item, fw.buffer).buf], SinkReady,
          0, "None", 0, fw.buffer)

\* A Framed whose poll_complete flushes the transport before it drains.
Framed_poll_complete_flush_first(fw) ==
  LET f == Fuse_flush(fw.calls)
      next == [fw EXCEPT !.calls = f.calls, !.log = Logged(@, "flush", fw.buffer)]
  IN CASE f.res = "Ok" -> pc_loop(next, 1)
       [] f.err = "WouldBlock" -> SinkRes(next, NotReady, 1, "WouldBlock", 1, next.buffer)
       [] OTHER -> SinkRes(next, Failed(f.err), 1, "Err", 1, next.buffer)

\* impl Sink for Framed: both calls are the write pump's.
Framed_start_send(c, fw, item) == FramedWrite_start_send(c, fw, item)
Framed_poll_complete(fw) == FramedWrite_poll_complete(fw)

(***************************************************************************)
(* The state: one length-delimited FramedRead over a Mock.                 *)
(*                                                                         *)
(* sent is the sequence of payloads the peer encoded; wire holds the bytes *)
(* of the Mock's script not yet popped.  How the script cuts these bytes   *)
(* into Data results, where it puts WouldBlock or another error, and where *)
(* it ends, is chosen when poll pops the results: a script may end (and    *)
(* read as Ok(0)) before all of wire was delivered.  closed records that   *)
(* the script ended; out the frames yielded, last the latest result and    *)
(* reads the transport reads of the latest poll.                           *)
(*                                                                         *)
(* twin is a second FramedRead of the same configuration whose Mock holds  *)
(* the script of the first without its WouldBlock results.                 *)
(***************************************************************************)
VARIABLES cfg, max_frame_length, sent, wire, closed,
          buffer, state, eof, out, last, reads, twin

rvars == << cfg, max_frame_length, sent, wire, closed,
            buffer, state, eof, out, last, reads, twin >>

\* The FramedWrite over the same kind of transport: write_buffer, the bytes
\* the transport accepted (sink), the frames start_send accepted, and of the
\* latest call: which it was (wcall), the frame offered (witem), its result
\* (wlast), the last transport result it met (wmet), the calls of
\* poll_complete it made (wdrains) and what it asked of the transport (wlog).
VARIABLES write_buffer, sink, accepted, wcall, witem, wlast, wmet, wdrains, wlog

wvars == << write_buffer, sink, accepted, wcall, witem, wlast, wmet, wdrains, wlog >>

\* The two halves of a split transport: the lock each half holds a handle to
\* (halves), the holder of each lock (locks), and what each half is doing on
\* the transport (rhalf, whalf).  io is the latest call of read_buf or
\* write_buf made directly on a transport: the script it was given, its
\* result and the results of the script it used up.
VARIABLES halves, locks, rhalf, whalf, io

svars == << halves, locks, rhalf, whalf, io >>

vars == << rvars, wvars, svars >>

\* Configurations whose encoder output the decoder reads back (offset 0, the
\* length field skipped): 2-byte big- and little-endian, 1-byte, 1-byte with
\* a length that counts the length field itself, varint.
ReadConfigs ==
  { Builder(2, 0, 0, TRUE), Builder(2, 0, 0, FALSE), Builder(1, 0, 0, TRUE),
    Builder(1, 0, -1, TRUE), BuilderVarint }

\* The payload of frame i with n bytes: bytes that are also plausible headers.
Payload(i, n) == [j \in 1..n |-> (i + j) % (MaxFrames + 1)]

RECURSIVE SeqsUpTo(_, _)
SeqsUpTo(S, n) ==
  IF n = 0 THEN { << >> }
  ELSE LET shorter == SeqsUpTo(S, n - 1)
       IN shorter \cup { Append(s, x) : s \in { t \in shorter : Len(t) = n - 1 }, x \in S }

\* The encodings of frames, concatenated.
RECURSIVE Encoded(_, _)
Encoded(c, frames) ==
  IF frames = << >> THEN << >>
  ELSE encode(c, Head(frames), << >>).buf \o Encoded(c, Tail(frames))

FramedReadNew ==
  [calls |-> << >>, buffer |-> << >>, state |-> Head_, eof |-> FALSE]

\* waited: the first FramedRead returned NotReady; dry: the twin has read
\* its script empty.
TwinNew ==
  [fr |-> FramedReadNew, out |-> << >>, last |-> Idle, waited |-> FALSE,
   dry |-> FALSE]

\* A split that gives each half a lock of its own.
split_own_locks == [r |-> 1, w |-> 2]

\* AsyncRead::split: both halves hold the one lock of the transport.
split == [r |-> 1, w |-> 1]

NoIo == [op |-> "none", res |-> "", n |-> 0, err |-> "", used |-> 0, script |-> << >>]

InitHalves ==
  /\ halves = split
  /\ locks = [l \in {1, 2} |-> "free"]
  /\ rhalf = "idle"
  /\ whalf = "idle"
  /\ io = NoIo

InitSink ==
  /\ InitHalves
  /\ write_buffer = << >>
  /\ sink = << >>
  /\ accepted = << >>
  /\ wcall = "none"
  /\ witem = << >>
  /\ wlast = Idle
  /\ wmet = "None"
  /\ wdrains = 0
  /\ wlog = NoLog

InitRead ==
  /\ InitSink
  /\ cfg \in ReadConfigs
  /\ max_frame_length \in 1..MaxLen
  /\ \E lens \in SeqsUpTo(0..MaxLen, MaxFrames) :
       sent = [i \in 1..Len(lens) |-> Payload(i, lens[i])]
  /\ wire = Encoded(cfg, sent)
  /\ closed = FALSE
  /\ buffer = << >>
  /\ state = Head_
  /\ eof = FALSE
  /\ out = << >>
  /\ last = Idle
  /\ reads = 0
  /\ twin = TwinNew

Init == InitRead

\* What the script may hold next when `rest` is still to be delivered.
ReadOps(rest) ==
  { DataOp(Take(rest, k)) : k \in 1..Len(rest) } \cup { WouldBlockOp, BrokenOp }

Delivered(rest, op) == IF op.kind = "Data" THEN Drop(rest, Len(op.data)) ELSE rest

\* The runs of one poll: the script is extended for as long as the poll pops
\* all of it and asks for more (it then reads the empty script as Ok(0):
\* dry).
RECURSIVE PollRuns(_, _, _, _, _)
PollRuns(c, max, fr, ops, rest) ==
  LET run == Framed_poll(c, max, [fr EXCEPT !.calls = ops])
      dry == run.reads > Len(ops)
      here == { [run |-> run, ops |-> ops, rest |-> rest, dry |-> dry] }
  IN IF dry
     THEN here \cup UNION { PollRuns(c, max, fr, Append(ops, op), Delivered(rest, op)) :
                            op \in ReadOps(rest) }
     ELSE here

FramedRead(calls) == [calls |-> calls, buffer |-> buffer, state |-> state, eof |-> eof]

Yielded(frames, res) == IF res.kind = "Frame" THEN Append(frames, res.frame) ELSE frames

\* The effect of one run of poll on the FramedRead.
Polled(r) ==
  /\ buffer' = r.run.fr.buffer
  /\ state' = r.run.fr.state
  /\ eof' = r.run.fr.eof
  /\ wire' = r.rest
  /\ closed' = (closed \/ r.dry)
  /\ last' = r.run.res
  /\ reads' = r.run.reads
  /\ out' = Yielded(out, r.run.res)
  /\ UNCHANGED << cfg, max_frame_length, sent, svars >>

\* poll().
Poll ==
  \E r \in PollRuns(cfg, max_frame_length, FramedRead(<< >>), << >>, wire) :
    /\ Polled(r)
    /\ UNCHANGED << twin, wvars >>

\* The twin after the first FramedRead popped `ops` and returned `res`: its
\* script gains the results other than WouldBlock, and it polls when the
\* first returned anything but NotReady.
TwinAfter(tw, ops, res) ==
  LET fed == [tw.fr EXCEPT !.calls = @ \o SelectSeq(ops, LAMBDA op : op # WouldBlockOp)]
      run == Framed_poll(cfg, max_frame_length, fed)
  IN IF res.kind = "NotReady"
     THEN [tw EXCEPT !.fr = fed, !.waited = TRUE]
     ELSE [tw EXCEPT !.fr = run.fr, !.out = Yielded(@, run.res), !.last = run.res,
                     !.dry = (@ \/ run.reads > Len(fed.calls))]

\* poll() on the FramedRead, and on its twin when the result is not NotReady.
PollPair ==
  \E r \in PollRuns(cfg, max_frame_length, FramedRead(<< >>), << >>, wire) :
    /\ Polled(r)
    /\ twin' = TwinAfter(twin, r.ops, r.run.res)
    /\ UNCHANGED wvars

\* set_max_frame_length(n).
SetMaxFrameLength ==
  \E n \in 0..MaxLen :
    /\ max_frame_length' = n
    /\ last' = Idle
    /\ reads' = 0
    /\ UNCHANGED << cfg, sent, wire, closed, buffer, state, eof, out, twin >>
    /\ UNCHANGED << wvars, svars >>

(***************************************************************************)
(* The FramedWrite alone.                                                  *)
(***************************************************************************)
\* The configurations of the FramedWrite: a fixed-width length field and
\* varint.
WriteConfigs == { Builder(2, 0, 0, FALSE), BuilderVarint }

InitWrite ==
  /\ InitSink
  /\ cfg \in WriteConfigs
  /\ max_frame_length = MaxLen
  /\ sent = << >>
  /\ wire = << >>
  /\ closed = FALSE
  /\ buffer = << >>
  /\ state = Head_
  /\ eof = FALSE
  /\ out = << >>
  /\ last = Idle
  /\ reads = 0
  /\ twin = TwinNew

SinkCall(call, c, fw, item) ==
  IF call = "start_send" THEN Framed_start_send(c, fw, item)
  ELSE Framed_poll_complete(fw)

\* What the script may hold next, after a call that read it empty: for a
\* write, a Data of a prefix of the buffer or an error; for a flush, Flush
\* or an error.  These are the scripts on which the Mock does not panic.
WriteOps(run) ==
  IF run.met = "Zero"
  THEN { DataOp(Take(run.drained, k)) : k \in 1..Len(run.drained) }
         \cup { WouldBlockOp, BrokenOp }
  ELSE { FlushOp, WouldBlockOp, BrokenOp }

\* The runs of one call of the sink, the script extended as for poll.
RECURSIVE SinkRuns(_, _, _, _, _)
SinkRuns(call, c, fw, item, ops) ==
  LET run == SinkCall(call, c, [fw EXCEPT !.calls = ops], item)
      dry == run.ios > Len(ops)
      here == { [run |-> run, ops |-> ops, dry |-> dry] }
  IN IF dry
     THEN here \cup UNION { SinkRuns(call, c, fw, item, Append(ops, op)) :
                            op \in WriteOps(run) }
     ELSE here

FramedWrite(calls) ==
  [calls |-> calls, buffer |-> write_buffer, sink |-> sink, log |-> NoLog]

\* The last result the transport gave in a run: the end of the script, none,
\* Data, Flush, or the error.
Met(r) ==
  IF r.dry THEN "End"
  ELSE IF r.ops = << >> THEN "None"
       ELSE LET op == r.ops[Len(r.ops)]
            IN IF op.kind = "Err" THEN op.err ELSE op.kind

\* The effect of one run of a sink call.
Sunk(call, item, r) ==
  /\ write_buffer' = r.run.fw.buffer
  /\ sink' = r.run.fw.sink
  /\ wcall' = call
  /\ witem' = item
  /\ wlast' = r.run.res
  /\ wmet' = Met(r)
  /\ wdrains' = r.run.drains
  /\ wlog' = r.run.fw.log
  /\ UNCHANGED << rvars, svars >>

\* start_send(frame).
StartSend ==
  /\ Len(accepted) < MaxFrames
  /\ \E n \in 0..MaxLen :
       LET item == Payload(Len(accepted) + 1, n)
       IN \E r \in SinkRuns("start_send", cfg, FramedWrite(<< >>), item, << >>) :
            /\ Sunk("start_send", item, r)
            /\ accepted' = IF r.run.res = SinkReady THEN Append(accepted, item)
                           ELSE accepted

\* poll_complete().
PollComplete ==
  \E r \in SinkRuns("poll_complete", cfg, FramedWrite(<< >>), << >>, << >>) :
    /\ Sunk("poll_complete", << >>, r)
    /\ UNCHANGED accepted

NextWrite == StartSend \/ PollComplete

\* Configurations under which some payloads are not representable: the
\* length to write is negative for the empty payload, or too large for
\* the field for the longer payloads.
SendConfigs ==
  { Builder(1, 0, 1, TRUE), Builder(1, 0, -254, TRUE),
    Builder(2, 0, -65534, FALSE), Builder(2, 0, -65534, TRUE) }

InitSend ==
  /\ InitSink
  /\ cfg \in SendConfigs
  /\ max_frame_length = MaxLen
  /\ sent = << >>
  /\ wire = << >>
  /\ closed = FALSE
  /\ buffer = << >>
  /\ state = Head_
  /\ eof = FALSE
  /\ out = << >>
  /\ last = Idle
  /\ reads = 0
  /\ twin = TwinNew

SpecSend == InitSend /\ [][NextWrite]_vars

SpecWrite == InitWrite /\ [][NextWrite]_vars

(***************************************************************************)
(* The FramedWrite over a transport that blocks or accepts: a write        *)
(* returns WouldBlock or takes at least one byte, a flush returns          *)
(* WouldBlock or succeeds.  The caller repeats poll_complete, and the      *)
(* transport does not return WouldBlock for ever.                          *)
(***************************************************************************)
\* The ways the transport takes `bytes`: in one write, or in two.
Cuts(bytes) ==
  IF bytes = << >> THEN { << >> }
  ELSE { << DataOp(bytes) >> } \cup
       { << DataOp(Take(bytes, k)), DataOp(Drop(bytes, k)) >> : k \in 1..(Len(bytes) - 1) }

\* Scripts on which a drain of buf ends with WouldBlock after the transport
\* took k bytes, and scripts on which it takes all and flushes.
BlockedAfter(buf, k) == { cut \o << WouldBlockOp >> : cut \in Cuts(Take(buf, k)) }
Flushed(buf) == { cut \o << FlushOp >> : cut \in Cuts(buf) }

DrainScripts(buf) ==
  Flushed(buf) \cup UNION { BlockedAfter(buf, k) : k \in 0..Len(buf) }

\* The one run of a sink call over the script ops.
SinkRun(call, item, ops) ==
  { [run |-> SinkCall(call, cfg, FramedWrite(ops), item), ops |-> ops, dry |-> FALSE] }

\* start_send(frame): a drain is made at or above the boundary.
DrainSend ==
  /\ Len(accepted) < MaxFrames
  /\ \E n \in 0..MaxLen :
       LET item == Payload(Len(accepted) + 1, n)
       IN \E ops \in IF Len(write_buffer) >= BACKPRESSURE_BOUNDARY
                      THEN DrainScripts(write_buffer) ELSE { << >> } :
            \E r \in SinkRun("start_send", item, ops) :
              /\ Sunk("start_send", item, r)
              /\ accepted' = IF r.run.res = SinkReady THEN Append(accepted, item)
                             ELSE accepted

\* poll_complete() that meets WouldBlock at once.
DrainBlocked ==
  \E r \in SinkRun("poll_complete", << >>, << WouldBlockOp >>) :
    /\ Sunk("poll_complete", << >>, r)
    /\ UNCHANGED accepted

\* poll_complete() in which the transport takes a byte or more, or flushes.
DrainProgress ==
  /\ wcall' = "poll_complete"
  /\ \E ops \in DrainScripts(write_buffer) \ { << WouldBlockOp >> } :
       \E r \in SinkRun("poll_complete", << >>, ops) :
         /\ Sunk("poll_complete", << >>, r)
         /\ UNCHANGED accepted

NextDrain == DrainSend \/ DrainBlocked \/ DrainProgress

\* The drain does not look into the bytes: one configuration, varint.
InitDrain == InitWrite /\ cfg = BuilderVarint

\* The caller repeats poll_complete and the transport does not block for
\* ever: a poll_complete in which the transport takes a byte or flushes
\* is made in the end.
SpecDrain == InitDrain /\ [][NextDrain]_vars /\ WF_vars(DrainProgress)

(***************************************************************************)
(* The codec alone: one payload encoded into an empty buffer, and the      *)
(* bytes decoded from state Head.                                          *)
(***************************************************************************)
\* Configurations with and without the defaults: a positive adjustment, an
\* offset with the default num_skip and with none, a header yielded with
\* the frame.
CodecConfigs ==
  ReadConfigs \cup
  { Builder(1, 0, 1, TRUE), Builder(1, 1, 0, TRUE), Config(1, 1, 0, 0, TRUE, FALSE),
    Config(1, 0, 1, 0, TRUE, FALSE), Config(1, 1, 2, 0, FALSE, FALSE) }

InitCodec ==
  /\ InitSink
  /\ cfg \in CodecConfigs
  /\ max_frame_length \in 0..MaxLen
  /\ sent = << >>
  /\ wire = << >>
  /\ closed = FALSE
  /\ buffer = << >>
  /\ state = Head_
  /\ eof = FALSE
  /\ out = << >>
  /\ last = Idle
  /\ reads = 0
  /\ twin = TwinNew

\* encode(p, write_buffer) on the empty buffer.
CodecEncode ==
  /\ wcall = "none"
  /\ \E p \in SeqsUpTo(0..MaxLen, MaxLen) :
       LET e == Fuse_encode(cfg, p, write_buffer)
       IN /\ write_buffer' = e.buf
          /\ witem' = p
          /\ wlast' = IF e.res = "Ok" THEN SinkReady ELSE Failed(e.err)
          /\ wcall' = "encode"
          /\ UNCHANGED << rvars, svars, sink, accepted, wmet, wdrains, wlog >>

\* decode of the bytes the encoder appended.
CodecDecode ==
  /\ wcall = "encode"
  /\ wlast = SinkReady
  /\ LET d == Fuse_decode(cfg, max_frame_length, state, write_buffer)
     IN /\ buffer' = d.buf
        /\ state' = d.state
        /\ out' = IF d.res = "Some" THEN << d.frame >> ELSE << >>
        /\ last' = IF d.res = "Some" THEN ReadyFrame(d.frame)
                   ELSE IF d.res = "Err" THEN Failed(d.err) ELSE NotReady
        /\ wcall' = "decode"
        /\ UNCHANGED << cfg, max_frame_length, sent, wire, closed, eof, reads, twin >>
        /\ UNCHANGED << write_buffer, sink, accepted, witem, wlast, wmet, wdrains, wlog, svars >>

NextCodec == CodecEncode \/ CodecDecode

SpecCodec == InitCodec /\ [][NextCodec]_vars

(***************************************************************************)
(* The decoder alone, on any bytes: the buffer is fed a byte at a time, as *)
(* a transport may deliver them, and decode is called on it in the state   *)
(* the last call left.                                                     *)
(***************************************************************************)
\* The bytes fed: for a varint the last byte of a varint and a continuation
\* byte; for a fixed width lengths within and above max_frame_length.
FeedBytes(c) == IF c.varint THEN { 0, 129 } ELSE { 0, 1, MaxLen + 1 }

\* The longest buffer fed: a frame and more, or a varint that does not end.
MaxBuffer(c) == IF c.varint THEN MaxVarintBytes + 1 ELSE MaxLen + 3

InitDecode ==
  /\ InitSink
  /\ cfg \in CodecConfigs
  /\ max_frame_length = MaxLen
  /\ sent = << >>
  /\ wire = << >>
  /\ closed = FALSE
  /\ buffer = << >>
  /\ state = Head_
  /\ eof = FALSE
  /\ out = << >>
  /\ last = Idle
  /\ reads = 0
  /\ twin = TwinNew

\* The transport delivers one more byte.
DecodeFeed ==
  /\ Len(buffer) < MaxBuffer(cfg)
  /\ \E b \in FeedBytes(cfg) :
       /\ buffer' = Append(buffer, b)
       /\ wcall' = "feed"
       /\ UNCHANGED << cfg, max_frame_length, sent, wire, closed, state, eof, out,
                       last, reads, twin >>
       /\ UNCHANGED << write_buffer, sink, accepted, witem, wlast, wmet, wdrains, wlog, svars >>

\* decode(buffer); last is the result, NotReady for "not enough data".
DecodeCall ==
  LET d == Fuse_decode(cfg, max_frame_length, state, buffer)
  IN /\ buffer' = d.buf
     /\ state' = d.state
     /\ out' = IF d.res = "Some" THEN << d.frame >> ELSE << >>
     /\ last' = IF d.res = "Some" THEN ReadyFrame(d.frame)
                ELSE IF d.res = "Err" THEN Failed(d.err) ELSE NotReady
     /\ wcall' = "decode"
     /\ UNCHANGED << cfg, max_frame_length, sent, wire, closed, eof, reads, twin >>
     /\ UNCHANGED << write_buffer, sink, accepted, witem, wlast, wmet, wdrains, wlog, svars >>

NextDecode == DecodeFeed \/ DecodeCall

SpecDecode == InitDecode /\ [][NextDecode]_vars

(***************************************************************************)
(* The varint codec on payloads long enough for a length of two bytes.     *)
(***************************************************************************)
\* The longest payload encoded under varint.
MaxVarintPayload == 300

InitVarint ==
  /\ InitSink
  /\ cfg = BuilderVarint
  /\ max_frame_length = MaxVarintPayload
  /\ sent = << >>
  /\ wire = << >>
  /\ closed = FALSE
  /\ buffer = << >>
  /\ state = Head_
  /\ eof = FALSE
  /\ out = << >>
  /\ last = Idle
  /\ reads = 0
  /\ twin = TwinNew

\* encode(p, write_buffer) of a payload of n bytes '3' on the empty buffer.
VarintEncode ==
  /\ wcall = "none"
  /\ \E n \in 0..MaxVarintPayload :
       LET p == [i \in 1..n |-> 51]
           e == Fuse_encode(cfg, p, write_buffer)
       IN /\ write_buffer' = e.buf
          /\ witem' = p
          /\ wlast' = IF e.res = "Ok" THEN SinkReady ELSE Failed(e.err)
          /\ wcall' = "encode"
          /\ UNCHANGED << rvars, svars, sink, accepted, wmet, wdrains, wlog >>

NextVarint == VarintEncode \/ CodecDecode

SpecVarint == InitVarint /\ [][NextVarint]_vars

(***************************************************************************)
(* A split transport: the ReadHalf and the WriteHalf on two tasks.  An     *)
(* operation of a half takes the lock its handle names, or returns         *)
(* WouldBlock when the lock is held; it then runs on the transport and     *)
(* gives the lock back.  The transport delivers bytes into buffer and      *)
(* takes bytes into sink.                                                  *)
(***************************************************************************)
InitSplit ==
  /\ InitSink
  /\ cfg = Builder(1, 0, 0, TRUE)
  /\ max_frame_length = MaxLen
  /\ sent = << >>
  /\ wire = << >>
  /\ closed = FALSE
  /\ buffer = << >>
  /\ state = Head_
  /\ eof = FALSE
  /\ out = << >>
  /\ last = Idle
  /\ reads = 0
  /\ twin = TwinNew

Blocked(op) ==
  [op |-> op, res |-> "Err", n |-> 0, err |-> "WouldBlock", used |-> 0, script |-> << >>]

\* ReadHalf::read takes the lock.
HalfReadBegin ==
  /\ rhalf = "idle"
  /\ locks[halves.r] = "free"
  /\ locks' = [locks EXCEPT ![halves.r] = "read"]
  /\ rhalf' = "read"
  /\ UNCHANGED << rvars, wvars, halves, whalf, io >>

\* ReadHalf::read finds the lock held.
HalfReadBlocked ==
  /\ rhalf = "idle"
  /\ locks[halves.r] # "free"
  /\ io' = Blocked("read")
  /\ UNCHANGED << rvars, wvars, halves, locks, rhalf, whalf >>

\* The read runs on the transport and the lock is given back.
HalfReadEnd ==
  /\ rhalf = "read"
  /\ \E b \in 0..1 :
       buffer' = IF Len(buffer) < MaxLen THEN Append(buffer, b) ELSE buffer
  /\ locks' = [locks EXCEPT ![halves.r] = "free"]
  /\ rhalf' = "idle"
  /\ UNCHANGED << cfg, max_frame_length, sent, wire, closed, state, eof, out,
                  last, reads, twin >>
  /\ UNCHANGED << wvars, halves, whalf, io >>

\* WriteHalf::write, flush or shutdown takes the lock.
HalfWriteBegin ==
  /\ whalf = "idle"
  /\ locks[halves.w] = "free"
  /\ \E op \in {"write", "flush", "shutdown"} : whalf' = op
  /\ locks' = [locks EXCEPT ![halves.w] = "write"]
  /\ UNCHANGED << rvars, wvars, halves, rhalf, io >>

\* WriteHalf::write, flush or shutdown finds the lock held.
HalfWriteBlocked ==
  /\ whalf = "idle"
  /\ locks[halves.w] # "free"
  /\ \E op \in {"write", "flush", "shutdown"} : io' = Blocked(op)
  /\ UNCHANGED << rvars, wvars, halves, locks, rhalf, whalf >>

\* The write, flush or shutdown runs on the transport and the lock is given
\* back.
HalfWriteEnd ==
  /\ whalf # "idle"
  /\ \E b \in 0..1 :
       sink' = IF whalf = "write" /\ Len(sink) < MaxLen THEN Append(sink, b) ELSE sink
  /\ locks' = [locks EXCEPT ![halves.w] = "free"]
  /\ whalf' = "idle"
  /\ UNCHANGED << write_buffer, accepted, wcall, witem, wlast, wmet, wdrains, wlog >>
  /\ UNCHANGED << rvars, halves, rhalf, io >>

NextSplit ==
  \/ HalfReadBegin
  \/ HalfReadBlocked
  \/ HalfReadEnd
  \/ HalfWriteBegin
  \/ HalfWriteBlocked
  \/ HalfWriteEnd

SpecSplit == InitSplit /\ [][NextSplit]_vars

(***************************************************************************)
(* read_buf and write_buf called directly on a transport: a BufMut of      *)
(* capacity MaxLen holding buffer, and a Buf whose remaining bytes are     *)
(* write_buffer.                                                           *)
(***************************************************************************)
InitBuf ==
  /\ InitHalves
  /\ buffer \in SeqsUpTo(0..1, MaxLen)
  /\ write_buffer \in SeqsUpTo(0..1, MaxLen)
  /\ sink = << >>
  /\ accepted = << >>
  /\ wcall = "none"
  /\ witem = << >>
  /\ wlast = Idle
  /\ wmet = "None"
  /\ wdrains = 0
  /\ wlog = NoLog
  /\ cfg = Builder(1, 0, 0, TRUE)
  /\ max_frame_length = MaxLen
  /\ sent = << >>
  /\ wire = << >>
  /\ closed = FALSE
  /\ state = Head_
  /\ eof = FALSE
  /\ out = << >>
  /\ last = Idle
  /\ reads = 0
  /\ twin = TwinNew

\* has_remaining_mut: the room left in the BufMut.
RemainingMut(buf) == MaxLen - Len(buf)

\* Scripts of a transport: none, one result, or one result and a WouldBlock
\* behind it.
Scripts(first) ==
  { << >> } \cup { << op >> : op \in first } \cup { << op, WouldBlockOp >> : op \in first }

\* The first result of a read: Data that fits the room, or an error.
ReadFirst(room) ==
  { DataOp(d) : d \in { e \in SeqsUpTo(0..1, MaxLen) : e # << >> /\ (room = 0 \/ Len(e) <= room) } }
    \cup { WouldBlockOp, BrokenOp }

\* The first result of a write: Data of a prefix of the bytes, or an error.
WriteFirst(src) ==
  { DataOp(Take(src, k)) : k \in 1..Len(src) } \cup { WouldBlockOp, BrokenOp }

IoOf(op, r, calls) ==
  [op |-> op, res |-> r.res, n |-> r.n, err |-> r.err,
   used |-> Len(calls) - Len(r.calls), script |-> calls]

\* transport.read_buf(buf).
ReadBuf ==
  \E calls \in Scripts(ReadFirst(RemainingMut(buffer))) :
    LET r == read_buf(calls, buffer, RemainingMut(buffer))
    IN /\ buffer' = r.buf
       /\ io' = IoOf("read_buf", r, calls)
       /\ UNCHANGED << cfg, max_frame_length, sent, wire, closed, state, eof, out,
                       last, reads, twin >>
       /\ UNCHANGED << wvars, halves, locks, rhalf, whalf >>

\* transport.write_buf(buf).
WriteBuf ==
  \E calls \in Scripts(WriteFirst(write_buffer)) :
    LET r == write_buf(calls, write_buffer)
    IN /\ write_buffer' = r.buf
       /\ sink' = sink \o Take(write_buffer, r.n)
       /\ io' = IoOf("write_buf", r, calls)
       /\ UNCHANGED << accepted, wcall, witem, wlast, wmet, wdrains, wlog >>
       /\ UNCHANGED << rvars, halves, locks, rhalf, whalf >>

NextBuf == ReadBuf \/ WriteBuf

SpecBuf == InitBuf /\ [][NextBuf]_vars

(***************************************************************************)
(* A Framed used in both directions: the read pump around the write pump   *)
(* around Fuse, which holds the one transport and the one codec.  The Fuse *)
(* record has the transport's script, the bytes it accepted, the calls of  *)
(* write_buf and flush (log) and of read_buf (reads) made on it, and the   *)
(* codec's decoder state.                                                  *)
(***************************************************************************)
\* Fuse(T, U), and Framed { inner: FramedRead2<FramedWrite2<Fuse<T, U>>> }.
Fuse(calls) ==
  [calls |-> calls, state |-> state, sink |-> sink, log |-> NoLog, reads |-> 0]

Framed(calls) ==
  [buffer |-> buffer, eof |-> eof,
   inner |-> [buffer |-> write_buffer, inner |-> Fuse(calls)]]

\* What the read pump works on: its own buffer and eof_seen, and through
\* its inner value the transport's read and the codec's decoder.
ReadView(fd) ==
  [calls |-> fd.inner.inner.calls, buffer |-> fd.buffer,
   state |-> fd.inner.inner.state, eof |-> fd.eof]

\* inner.get_mut(): the write pump, with the transport's write and flush.
WriteView(fd) ==
  [calls |-> fd.inner.inner.calls, buffer |-> fd.inner.buffer,
   sink |-> fd.inner.inner.sink, log |-> fd.inner.inner.log]

FramedRes(fd, res, drains) == [fd |-> fd, res |-> res, drains |-> drains]

\* The Framed value after a run of the write pump it wraps.
WithWrite(fd, run) ==
  FramedRes([fd EXCEPT !.inner.buffer = run.fw.buffer,
                       !.inner.inner.calls = run.fw.calls,
                       !.inner.inner.sink = run.fw.sink,
                       !.inner.inner.log = run.fw.log],
            run.res, run.drains)

\* The Framed value after a run of the read pump.
WithRead(fd, run) ==
  FramedRes([fd EXCEPT !.buffer = run.fr.buffer,
                       !.eof = run.fr.eof,
                       !.inner.inner.calls = run.fr.calls,
                       !.inner.inner.state = run.fr.state,
                       !.inner.inner.reads = @ + run.reads],
            run.res, 0)

\* impl Sink for Framed, on the Framed value: the call goes to the write
\* pump inside the read pump.
Sink_call(call, c, fd, item) ==
  WithWrite(fd, SinkCall(call, c, WriteView(fd), item))

\* A Framed whose poll first drives the write pump it wraps.
Stream_poll_through_sink(c, max, fd) ==
  WithRead(WithWrite(fd, SinkCall("poll_complete", c, WriteView(fd), << >>)).fd,
           Framed_poll(c, max, ReadView(WithWrite(fd, SinkCall("poll_complete", c, WriteView(fd), << >>)).fd)))

\* impl Stream for Framed, on the Framed value: poll is the read pump's.
Stream_poll(c, max, fd) ==
  WithRead(fd, Framed_poll(c, max, ReadView(fd)))

\* One configuration, one frame inbound and at most one outbound.
InitFramed ==
  /\ InitSink
  /\ cfg = Builder(1, 0, 0, TRUE)
  /\ max_frame_length = MaxLen
  /\ sent = << Payload(1, MaxLen) >>
  /\ wire = Encoded(cfg, sent)
  /\ closed = FALSE
  /\ buffer = << >>
  /\ state = Head_
  /\ eof = FALSE
  /\ out = << >>
  /\ last = Idle
  /\ reads = 0
  /\ twin = TwinNew

\* The effect of a call on the Framed value f.fd.
Called(f) ==
  /\ buffer' = f.fd.buffer
  /\ eof' = f.fd.eof
  /\ state' = f.fd.inner.inner.state
  /\ reads' = f.fd.inner.inner.reads
  /\ write_buffer' = f.fd.inner.buffer
  /\ sink' = f.fd.inner.inner.sink
  /\ wlog' = f.fd.inner.inner.log
  /\ UNCHANGED << cfg, max_frame_length, sent, twin, svars >>

\* poll() on the Framed.
FramedPoll ==
  \E r \in PollRuns(cfg, max_frame_length, FramedRead(<< >>), << >>, wire) :
    \E f \in { Stream_poll(cfg, max_frame_length, Framed(r.ops)) } :
      /\ Called(f)
      /\ wcall' = "poll"
      /\ wire' = r.rest
      /\ closed' = (closed \/ r.dry)
      /\ last' = f.res
      /\ out' = Yielded(out, f.res)
      /\ UNCHANGED << accepted, witem, wlast, wmet, wdrains >>

\* The effect of a call of the sink on the Framed.
FramedSunk(call, item, ops, f) ==
  /\ Called(f)
  /\ wcall' = call
  /\ witem' = item
  /\ wlast' = f.res
  /\ wmet' = Met([ops |-> ops, dry |-> FALSE])
  /\ wdrains' = f.drains
  /\ UNCHANGED << wire, closed, last, out >>

\* start_send(frame) on the Framed: the write buffer is empty, below the
\* boundary, and the transport is not called.
FramedStartSend ==
  /\ accepted = << >>
  /\ \E n \in 1..MaxLen :
       LET item == Payload(1, n)
       IN \E ops \in { << >> } :
            \E f \in { Sink_call("start_send", cfg, Framed(ops), item) } :
              /\ FramedSunk("start_send", item, ops, f)
              /\ accepted' = IF f.res = SinkReady THEN Append(accepted, item)
                             ELSE accepted

\* poll_complete() on the Framed.
FramedPollComplete ==
  \E ops \in DrainScripts(write_buffer) :
    \E f \in { Sink_call("poll_complete", cfg, Framed(ops), << >>) } :
      /\ FramedSunk("poll_complete", << >>, ops, f)
      /\ UNCHANGED accepted

NextFramed == FramedPoll \/ FramedStartSend \/ FramedPollComplete

SpecFramed == InitFramed /\ [][NextFramed]_vars

Next == Poll \/ SetMaxFrameLength

\* The read pump with a limit that changes between polls.
Spec == Init /\ [][Next]_vars

\* The read pump alone.
SpecRead == Init /\ [][Poll]_vars

\* The read pump beside its twin.
SpecPair == Init /\ [][PollPair]_vars

(***************************************************************************)
(* What the peer sent, as the properties below speak of it.                *)
(***************************************************************************)
IsPrefix(a, b) == Len(a) <= Len(b) /\ a = Take(b, Len(a))

\* Every frame of the stream is within the limit.
AllWithin == \A i \in 1..Len(sent) : Len(sent[i]) <= max_frame_length

\* The bytes the transport has delivered so far.
DeliveredLen == Len(Encoded(cfg, sent)) - Len(wire)

\* The delivered bytes end where a frame of the stream ends.
AtBoundary ==
  \E k \in 0..Len(sent) : DeliveredLen = Len(Encoded(cfg, Take(sent, k)))

\* The frame after those yielded: its payload length, its header length, and
\* whether all of its header is in the read buffer.
Pending == Len(out) < Len(sent)
NextLen == Len(sent[Len(out) + 1])
NextHeaderLen == Len(encode(cfg, sent[Len(out) + 1], << >>).buf) - NextLen
HeaderBuffered == Pending /\ Len(buffer) >= NextHeaderLen

(***************************************************************************)
(* C1.  Byte-split invariance: the frames yielded are always the first of  *)
(* the frames sent, in order; when all frames are within the limit, an     *)
(* error is the transport's own or comes from a stream cut short; and once *)
(* the whole stream was delivered, in whatever chunks, and the transport   *)
(* reported EOF, every frame has been yielded and poll returns             *)
(* Ready(None).                                                            *)
(***************************************************************************)
C1_ByteSplitInvariance ==
  /\ IsPrefix(out, sent)
  /\ (AllWithin /\ last.kind = "Err") =>
       (last.err = "BrokenPipe" \/ (closed /\ wire # << >>))
  /\ (AllWithin /\ closed /\ wire = << >>) => (out = sent /\ last = ReadyNone)

\* The whole stream of MaxFrames frames was delivered and yielded, then the end.
C1_Witness ==
  /\ AllWithin /\ closed /\ wire = << >>
  /\ Len(sent) = MaxFrames /\ Len(sent[MaxFrames]) > 0
  /\ out = sent /\ last = ReadyNone

(***************************************************************************)
(* C5.  Dynamic limit: a frame whose header was accepted (state Data(k))   *)
(* is yielded in full, k bytes, whatever the limit has become, and is      *)
(* never failed with InvalidData; a poll that starts in Head yields only   *)
(* frames within the current limit, fails with InvalidData only for a      *)
(* header that announces more than the current limit, and cannot leave     *)
(* such a header buffered without failing.                                 *)
(***************************************************************************)
C5_DynamicLimit ==
  /\ [](last = Failed("InvalidData") =>
          (state.kind = "Head" /\ Pending /\ NextLen > max_frame_length))
  /\ []((state.kind = "Head" /\ last.kind \notin {"Idle", "Frame"}
          /\ HeaderBuffered /\ NextLen > max_frame_length)
          => last = Failed("InvalidData"))
  /\ [][ /\ out' # out => Len(out') <= Len(sent)
         /\ (state.kind = "Data" /\ out' # out) =>
              (last' = ReadyFrame(sent[Len(out')]) /\ Len(last'.frame) = state.n)
         /\ (state.kind = "Head" /\ out' # out) =>
              (last' = ReadyFrame(sent[Len(out')])
               /\ Len(last'.frame) <= max_frame_length) ]_vars

\* A frame longer than the limit was yielded: the limit was lowered in flight.
C5_Witness ==
  /\ last.kind = "Frame" /\ Len(last.frame) > max_frame_length
  /\ out # << >> /\ last.frame = sent[Len(out)]

(***************************************************************************)
(* C6.  Frame-size boundary, under a fixed limit: InvalidData is returned  *)
(* only in Head for a header announcing max_frame_length + 1 or more, and  *)
(* then no frame is yielded; a header announcing max_frame_length or less  *)
(* takes the decoder to Data with that length, so that a poll which did    *)
(* not yield never leaves a buffered header in Head except by failing.     *)
(***************************************************************************)
C6_FrameSizeBoundary ==
  /\ last = Failed("InvalidData") =>
       (state.kind = "Head" /\ Pending /\ NextLen >= max_frame_length + 1)
  /\ state.kind = "Data" =>
       (Pending /\ state.n = NextLen /\ NextLen <= max_frame_length)
  /\ (state.kind = "Head" /\ last.kind \notin {"Idle", "Frame"} /\ HeaderBuffered) =>
       (NextLen >= max_frame_length + 1 /\ last = Failed("InvalidData"))
  /\ last.kind = "Frame" => Len(last.frame) <= max_frame_length

\* A frame of exactly the limit was yielded, the next, one byte longer, fails.
C6_Witness ==
  /\ last = Failed("InvalidData")
  /\ Len(out) = 1 /\ Len(out[1]) = max_frame_length
  /\ Pending /\ NextLen = max_frame_length + 1

(***************************************************************************)
(* C7.  Incomplete frame at EOF: once the transport has reported EOF with  *)
(* bytes of an unfinished frame delivered (the read buffer is not empty,   *)
(* or the delivered bytes do not end at a frame's end), poll returns an    *)
(* error: not Ready(None), and no frame beyond the whole frames sent.      *)
(***************************************************************************)
C7_IncompleteAtEof ==
  (closed /\ (buffer # << >> \/ ~AtBoundary)) =>
    (last.kind = "Err" /\ IsPrefix(out, sent) /\ Len(out) < Len(sent))

\* EOF after a full header and a part of the payload.
C7_Witness ==
  /\ closed /\ state.kind = "Data" /\ Len(buffer) > NextHeaderLen
  /\ last.kind = "Err" /\ reads > 1

(***************************************************************************)
(* C8.  Clean end of stream: after the transport reported EOF with an      *)
(* empty read buffer poll returns Ready(None), and Ready(None) is returned *)
(* only then: the transport reported EOF, the buffer is empty and every    *)
(* delivered byte belongs to a frame yielded.                              *)
(***************************************************************************)
C8_CleanEndOfStream ==
  /\ (closed /\ buffer = << >>) => last = ReadyNone
  /\ last = ReadyNone =>
       (closed /\ buffer = << >> /\ DeliveredLen = Len(Encoded(cfg, out)))

\* The end of stream after one frame.
C8_Witness ==
  /\ last = ReadyNone /\ closed /\ buffer = << >> /\ Len(out) = 1

(***************************************************************************)
(* C9.  NotReady insensitivity: the FramedRead whose transport returns     *)
(* WouldBlock between chunks and its twin, whose transport returns the     *)
(* same results without the WouldBlocks, have yielded the same frames, and *)
(* the latest result of the first other than NotReady is the latest of     *)
(* the twin; the twin sees the end of its script only if the first saw the *)
(* end of its own.                                                         *)
(***************************************************************************)
C9_NotReadyInsensitivity ==
  /\ twin.out = out
  /\ last.kind # "NotReady" => twin.last = last
  /\ twin.dry => closed

\* Both reached the end of a stream of two frames; the first met WouldBlock.
C9_Witness ==
  /\ twin.waited /\ last = ReadyNone /\ twin.last = ReadyNone
  /\ Len(out) = MaxFrames /\ twin.out = out

(***************************************************************************)
(* C2 (as stated).  Round trip for every configuration: whatever the field *)
(* width, offset, adjustment, num_skip, endianness or varint, decoding the *)
(* bytes that encoding p appended, for p no longer than max_frame_length   *)
(* and representable, yields the one frame p and leaves no byte.           *)
(***************************************************************************)
RoundTrips == out = << witem >> /\ last = ReadyFrame(witem) /\ buffer = << >>

C2_RoundTripEveryConfig ==
  (wcall = "decode" /\ Len(witem) <= max_frame_length) => RoundTrips

(***************************************************************************)
(* C2.  Round trip where the decoder's header is the encoder's: for every  *)
(* configuration with length_field_offset = 0 and num_skip the width of    *)
(* the length field (any width, adjustment and endianness, or varint),     *)
(* decoding the bytes that encoding p appended, for p no longer than       *)
(* max_frame_length and representable, yields the one frame p, leaves no   *)
(* byte and the decoder in Head.                                           *)
(***************************************************************************)
HeaderIsLengthField == cfg.varint \/ (cfg.offset = 0 /\ cfg.skip = cfg.lfl)

C2_RoundTrip ==
  (wcall = "decode" /\ Len(witem) <= max_frame_length /\ HeaderIsLengthField)
    => (RoundTrips /\ state = Head_)

C2_Witness ==
  /\ wcall = "decode"
  /\ HeaderIsLengthField
  /\ cfg.adj # 0
  /\ Len(witem) = MaxLen
  /\ RoundTrips

(***************************************************************************)
(* C3.  Outbound order and conservation: the bytes the transport accepted  *)
(* followed by the bytes in the write buffer are the encodings of the      *)
(* frames start_send accepted, in the order of acceptance.                 *)
(***************************************************************************)
C3_OutboundConservation == sink \o write_buffer = Encoded(cfg, accepted)

C3_Witness ==
  /\ Len(accepted) = MaxFrames
  /\ sink # << >>
  /\ write_buffer # << >>
  /\ Len(sink) > Len(Encoded(cfg, << accepted[1] >>))

(***************************************************************************)
(* C4.  Mid-frame WouldBlock is absorbed: a poll_complete that meets       *)
(* WouldBlock returns NotReady and keeps exactly the unwritten suffix;     *)
(* every poll_complete moves a prefix of the write buffer to the transport *)
(* and keeps the rest, so the next resumes from the suffix; poll_complete  *)
(* returns Ready only with the write buffer empty and the flush done.      *)
(***************************************************************************)
C4_WouldBlockAbsorbed ==
  /\ []((wcall = "poll_complete" /\ wmet = "WouldBlock")
          => (wlast = NotReady /\ sink \o write_buffer = Encoded(cfg, accepted)))
  /\ []((wcall = "poll_complete" /\ wlast = SinkReady)
          => (write_buffer = << >> /\ wmet \in {"Flush", "End"}
              /\ sink = Encoded(cfg, accepted)))
  /\ [][wcall' = "poll_complete"
          => (sink' \o write_buffer' = sink \o write_buffer /\ IsPrefix(sink, sink'))]_vars

C4_Witness ==
  /\ wcall = "poll_complete"
  /\ wmet = "WouldBlock"
  /\ wlast = NotReady
  /\ Len(accepted) = 1
  /\ sink # << >>
  /\ write_buffer # << >>
  /\ Len(write_buffer) < Len(accepted[1])

(***************************************************************************)
(* C10.  Backpressure: start_send on a write buffer of at least            *)
(* BACKPRESSURE_BOUNDARY bytes calls poll_complete once; if the buffer is  *)
(* still at or above the boundary it returns NotReady with the same frame, *)
(* nothing of it encoded; on a buffer below the boundary, at the call or   *)
(* after the drain, it appends the frame's encoding and accepts.  A        *)
(* buffer below the boundary at the call is not drained.                   *)
(***************************************************************************)
Drained == Len(sink') - Len(sink)
AcceptsFrame ==
  /\ wlast' = SinkReady
  /\ write_buffer' = Drop(write_buffer, Drained) \o Encoded(cfg, << witem' >>)
  /\ accepted' = Append(accepted, witem')

C11_WriteZero ==
  /\ (wcall = "poll_complete" /\ wmet = "End" /\ write_buffer # << >>)
       => (wlast = Failed("WriteZero")
           /\ sink \o write_buffer = Encoded(cfg, accepted))
  /\ (wcall = "poll_complete" /\ wlast = Failed("WriteZero"))
       => (wmet = "End" /\ write_buffer # << >>)
  /\ (wcall = "poll_complete" /\ write_buffer # << >>) => wlast # SinkReady

C11_Witness ==
  /\ wcall = "poll_complete"
  /\ wlast = Failed("WriteZero")
  /\ wmet = "End"
  /\ sink # << >>
  /\ write_buffer # << >>

(***************************************************************************)
(* The header as the bytes of the buffer show it, for the claims about     *)
(* decode.                                                                 *)
(***************************************************************************)
\* The bytes of the varint at the front of b: up to its first byte without
\* the continuation bit; 0 if there is none.
VarintLen(b) ==
  IF \E i \in 1..Len(b) : b[i] < 128
  THEN CHOOSE i \in 1..Len(b) : b[i] < 128 /\ \A j \in 1..(i - 1) : b[j] >= 128
  ELSE 0

\* The fixed-width header is in the buffer; the value of its length field.
FieldBuffered == ~cfg.varint /\ Len(buffer) >= cfg.offset + cfg.lfl
FieldByte(k) == buffer[cfg.offset + k]
FieldValue ==
  IF cfg.lfl = 1 THEN FieldByte(1)
  ELSE IF cfg.big THEN 256 * FieldByte(1) + FieldByte(2)
       ELSE FieldByte(1) + 256 * FieldByte(2)

\* The header bytes a decode from this state discards ahead of the frame.
Skipped ==
  IF state.kind = "Data" THEN state.skip
  ELSE IF cfg.varint THEN VarintLen(buffer) ELSE cfg.skip

(***************************************************************************)
(* C12.  Decoder buffer contract: a decode, from Head or from Data, that   *)
(* returns a frame removes from the front of the buffer the skipped header *)
(* bytes and the frame, which is the bytes that followed the header; a     *)
(* decode that returns "not enough data" leaves the buffer as it was.      *)
(***************************************************************************)
C12_DecoderBufferContract ==
  [][wcall' = "decode" =>
       /\ last'.kind \in {"Frame", "NotReady", "Err"}
       /\ last'.kind = "Frame" =>
            /\ Len(buffer) >= Skipped + Len(last'.frame)
            /\ last'.frame = SubSeq(buffer, Skipped + 1, Skipped + Len(last'.frame))
            /\ buffer' = Drop(buffer, Skipped + Len(last'.frame))
            /\ state' = Head_
       /\ last'.kind = "NotReady" => buffer' = buffer]_vars

C12_Witness ==
  /\ wcall = "decode"
  /\ last.kind = "Frame"
  /\ Len(last.frame) = MaxLen
  /\ cfg.skip > 0
  /\ buffer # << >>

(***************************************************************************)
(* C13.  Frame extent under (W, O, A, S): for a fixed-width configuration  *)
(* whose header is buffered, with n the value of the W-byte field at       *)
(* offset O and n + A within 0..max_frame_length, decode returns "not      *)
(* enough data" while the buffer holds fewer than S + (n + A) bytes, and   *)
(* otherwise discards the first S bytes and yields exactly the next n + A. *)
(* With S = O + W the frame is the bytes after the header; with S = 0 and  *)
(* A = O + W the frame starts with the whole header.                       *)
(***************************************************************************)
FrameExtent == FieldValue + cfg.adj

C13_FrameExtent ==
  [][(wcall' = "decode" /\ ~cfg.varint) =>
       /\ ~FieldBuffered => (last' = NotReady /\ buffer' = buffer)
       /\ (FieldBuffered /\ FrameExtent >= 0 /\ FrameExtent <= max_frame_length) =>
            IF Len(buffer) < cfg.skip + FrameExtent
            THEN last' = NotReady /\ buffer' = buffer
            ELSE /\ last' = ReadyFrame(SubSeq(buffer, cfg.skip + 1, cfg.skip + FrameExtent))
                 /\ buffer' = Drop(buffer, cfg.skip + FrameExtent)
                 /\ cfg.skip = cfg.offset + cfg.lfl =>
                      last'.frame = Take(Drop(buffer, cfg.offset + cfg.lfl), FrameExtent)
                 /\ (cfg.skip = 0 /\ cfg.adj = cfg.offset + cfg.lfl) =>
                      Take(last'.frame, cfg.offset + cfg.lfl)
                        = Take(buffer, cfg.offset + cfg.lfl)]_vars

C13_Witness ==
  /\ wcall = "decode"
  /\ ~cfg.varint
  /\ cfg.skip = 0
  /\ cfg.offset > 0
  /\ cfg.adj = cfg.offset + cfg.lfl
  /\ last.kind = "Frame"
  /\ Len(last.frame) = cfg.offset + cfg.lfl
  /\ last.frame[1] # 0
  /\ buffer # << >>

(***************************************************************************)
(* C14.  Negative adjusted length: a decode in Head of a buffered header   *)
(* whose n + length_adjustment is below 0 fails with InvalidData; it       *)
(* yields no frame, stays in Head and leaves the buffer.  No frame is ever *)
(* yielded from a header whose adjusted length is negative.                *)
(***************************************************************************)
C14_NegativeAdjustedLength ==
  [][(wcall' = "decode" /\ state.kind = "Head" /\ FieldBuffered /\ FrameExtent < 0) =>
       /\ last' = Failed("InvalidData")
       /\ out' = << >>
       /\ state' = Head_
       /\ buffer' = buffer]_vars

C14_Witness ==
  /\ wcall = "decode"
  /\ last = Failed("InvalidData")
  /\ state.kind = "Head"
  /\ FieldBuffered
  /\ cfg.adj < 0
  /\ FrameExtent < 0
  /\ Len(buffer) > cfg.offset + cfg.lfl

(***************************************************************************)
(* C15.  Encode range check: for a length field of W bytes, a start_send   *)
(* that does not hand the frame back appends n = payload.len() -           *)
(* length_adjustment in the configured byte order, then the payload, and   *)
(* accepts, when 0 <= n < 2^(8W); for every other payload it returns the   *)
(* error InvalidInput, appends nothing and accepts nothing.                *)
(***************************************************************************)
LengthToWrite == Len(witem') - cfg.adj
LengthFits == LengthToWrite >= 0 /\ LengthToWrite < Pow(2, 8 * cfg.lfl)
LengthBytes ==
  IF cfg.lfl = 1 THEN << LengthToWrite >>
  ELSE IF cfg.big THEN << LengthToWrite \div 256, LengthToWrite % 256 >>
       ELSE << LengthToWrite % 256, LengthToWrite \div 256 >>

C15_EncodeRangeCheck ==
  [][(wcall' = "start_send" /\ ~cfg.varint /\ wlast'.kind # "NotReady") =>
       IF LengthFits
       THEN /\ wlast' = SinkReady
            /\ write_buffer' = Drop(write_buffer, Drained) \o LengthBytes \o witem'
            /\ accepted' = Append(accepted, witem')
       ELSE /\ wlast' = Failed("InvalidInput")
            /\ write_buffer' = Drop(write_buffer, Drained)
            /\ accepted' = accepted]_vars

C15_Witness ==
  /\ wcall = "start_send"
  /\ wlast = Failed("InvalidInput")
  /\ cfg.lfl = 2
  /\ ~cfg.big
  /\ Len(witem) - cfg.adj >= Pow(2, 8 * cfg.lfl)
  /\ accepted = << << >> >>
  /\ write_buffer = << 254, 255 >>

(***************************************************************************)
(* C16.  Varint wire format: under varint the encoder writes, before the   *)
(* payload, the LEB128 of the payload's length: bytes of 7 value bits,     *)
(* least-significant group first, the high bit set on every byte but the   *)
(* last, no more bytes than the value needs (300 is AC 02); and decode     *)
(* yields the payload back, taking exactly those bytes as the header.      *)
(***************************************************************************)
RECURSIVE Leb128Value(_)
Leb128Value(h) ==
  IF h = << >> THEN 0 ELSE (Head(h) % 128) + 128 * Leb128Value(Tail(h))

IsLeb128(h, n) ==
  /\ Len(h) >= 1
  /\ \A i \in 1..(Len(h) - 1) : h[i] >= 128 /\ h[i] < 256
  /\ h[Len(h)] < 128
  /\ Len(h) > 1 => h[Len(h)] # 0
  /\ Leb128Value(h) = n

VarintHeader == Take(write_buffer, Len(write_buffer) - Len(witem))

C16_VarintWireFormat ==
  /\ wcall \in {"encode", "decode"} =>
       /\ wlast = SinkReady
       /\ Len(write_buffer) > Len(witem)
       /\ IsLeb128(VarintHeader, Len(witem))
       /\ Drop(write_buffer, Len(VarintHeader)) = witem
       /\ Len(witem) = 300 => VarintHeader = << 172, 2 >>
  /\ wcall = "decode" =>
       /\ last = ReadyFrame(witem)
       /\ buffer = << >>
       /\ state = Head_

C16_Witness ==
  /\ wcall = "decode"
  /\ Len(witem) = 300
  /\ Take(write_buffer, 2) = << 172, 2 >>
  /\ last = ReadyFrame(witem)
  /\ buffer = << >>

(***************************************************************************)
(* C17.  Varint termination: a decode in Head of a buffer whose first      *)
(* MaxVarintBytes bytes all carry the continuation bit fails with          *)
(* InvalidData; a decode of a buffer shorter than that, every byte of it   *)
(* carrying the continuation bit, returns "not enough data", stays in Head *)
(* and leaves the buffer.                                                  *)
(***************************************************************************)
Continues(k) == \A i \in 1..k : buffer[i] >= 128

C17_VarintTermination ==
  [][(wcall' = "decode" /\ cfg.varint /\ state.kind = "Head") =>
       /\ (Len(buffer) >= MaxVarintBytes /\ Continues(MaxVarintBytes)) =>
            (last' = Failed("InvalidData") /\ out' = << >>)
       /\ (Len(buffer) < MaxVarintBytes /\ Continues(Len(buffer))) =>
            (last' = NotReady /\ state' = Head_ /\ buffer' = buffer)]_vars

C17_Witness ==
  /\ wcall = "decode"
  /\ cfg.varint
  /\ last = Failed("InvalidData")
  /\ Len(buffer) = MaxVarintBytes
  /\ Continues(MaxVarintBytes)

C19_ReadBufByCase ==
  [][io'.op = "read_buf" =>
       LET sc == io'.script
       IN IF RemainingMut(buffer) = 0
          THEN io'.res = "Ready" /\ io'.n = 0 /\ io'.used = 0 /\ buffer' = buffer
          ELSE IF sc = << >>
          THEN io'.res = "Ready" /\ io'.n = 0 /\ buffer' = buffer
          ELSE /\ io'.used = 1
               /\ sc[1].kind = "Data" =>
                    /\ io'.res = "Ready"
                    /\ io'.n = Len(sc[1].data)
                    /\ buffer' = buffer \o sc[1].data
               /\ sc[1] = WouldBlockOp => (io'.res = "NotReady" /\ buffer' = buffer)
               /\ sc[1] = BrokenOp =>
                    (io'.res = "Err" /\ io'.err = "BrokenPipe" /\ buffer' = buffer)]_vars

C19_Witness ==
  /\ io.op = "read_buf"
  /\ io.res = "Ready"
  /\ io.n = 1
  /\ io.used = 1
  /\ Len(io.script) = 2
  /\ Len(buffer) = MaxLen

(***************************************************************************)
(* C20.  write_buf by case: with bytes remaining write_buf takes exactly   *)
(* one result of the transport's write, made on the head of the buffer: on *)
(* Ok(n) exactly the first n bytes leave the buffer for the transport and  *)
(* it returns Ready(n); on WouldBlock it returns NotReady and on another   *)
(* error that error, the buffer as it was; with nothing remaining it       *)
(* returns Ready(0) and takes no result of the transport.                  *)
(***************************************************************************)
C20_WriteBufByCase ==
  [][io'.op = "write_buf" =>
       LET sc == io'.script
       IN IF write_buffer = << >>
          THEN /\ io'.res = "Ready" /\ io'.n = 0 /\ io'.used = 0
               /\ write_buffer' = write_buffer /\ sink' = sink
          ELSE IF sc = << >>
          THEN /\ io'.res = "Ready" /\ io'.n = 0
               /\ write_buffer' = write_buffer /\ sink' = sink
          ELSE /\ io'.used = 1
               /\ sc[1].kind = "Data" =>
                    /\ io'.res = "Ready"
                    /\ io'.n = Len(sc[1].data)
                    /\ write_buffer = sc[1].data \o write_buffer'
                    /\ sink' = sink \o sc[1].data
               /\ sc[1] = WouldBlockOp =>
                    (io'.res = "NotReady" /\ write_buffer' = write_buffer /\ sink' = sink)
               /\ sc[1] = BrokenOp =>
                    /\ io'.res = "Err" /\ io'.err = "BrokenPipe"
                    /\ write_buffer' = write_buffer /\ sink' = sink]_vars

C20_Witness ==
  /\ io.op = "write_buf"
  /\ io.res = "Ready"
  /\ io.n = 1
  /\ io.used = 1
  /\ Len(io.script) = 2
  /\ Len(sink) = 1
  /\ write_buffer # << >>

(***************************************************************************)
(* C21.  Decode before read: a poll that finds a complete frame within the *)
(* limit in the read buffer returns that frame and makes no transport      *)
(* read, so the script of the transport is as it was; a poll that has not  *)
(* seen EOF and makes no read returns a frame or the decoder's error, that *)
(* is, the transport is read whenever decode returned "none".  Frames that *)
(* arrived in one chunk are so yielded by consecutive polls.               *)
(***************************************************************************)
FrameBuffered ==
  /\ Pending
  /\ NextLen <= max_frame_length
  /\ Len(buffer) >= NextHeaderLen + NextLen

C21_DecodeBeforeRead ==
  [][ /\ FrameBuffered =>
            /\ last' = ReadyFrame(sent[Len(out) + 1])
            /\ reads' = 0
            /\ wire' = wire
            /\ closed' = closed
      /\ (~eof /\ reads' = 0) =>
            (last'.kind = "Frame" \/ last' = Failed("InvalidData")) ]_vars

\* The second of two frames that came in one chunk, yielded with no read.
C21_Witness ==
  /\ Len(sent) = MaxFrames
  /\ out = sent
  /\ last = ReadyFrame(sent[MaxFrames])
  /\ Len(last.frame) = MaxLen
  /\ reads = 0
  /\ buffer = << >>
  /\ ~closed

(***************************************************************************)
(* C22.  Flush ordering: no call of the sink flushes the transport while   *)
(* bytes are in the write buffer; a poll_complete flushes exactly once     *)
(* when it leaves the buffer empty and not at all when it leaves bytes;    *)
(* when it flushed, the flush was its last transport call and its result   *)
(* is the flush's: Ready for a flush done, NotReady for WouldBlock, the    *)
(* error for an error; called on an empty buffer it calls no write_buf,    *)
(* gives the transport no byte and flushes.                                *)
(***************************************************************************)
C22_FlushOrdering ==
  [][ /\ wcall' \in {"start_send", "poll_complete"} => ~wlog'.dirty
      /\ wcall' = "poll_complete" =>
            /\ wlog'.flushes = (IF write_buffer' = << >> THEN 1 ELSE 0)
            /\ write_buffer' = << >> =>
                  /\ wmet' \in {"Flush", "End", "WouldBlock", "BrokenPipe"}
                  /\ wmet' \in {"Flush", "End"} => wlast' = SinkReady
                  /\ wmet' = "WouldBlock" => wlast' = NotReady
                  /\ wmet' = "BrokenPipe" => wlast' = Failed("BrokenPipe")
            /\ write_buffer = << >> =>
                  /\ ~wlog'.wrote
                  /\ sink' = sink
                  /\ write_buffer' = << >> ]_vars

\* Two frames drained by one poll_complete, which then flushed.
C22_Witness ==
  /\ wcall = "poll_complete"
  /\ Len(accepted) = MaxFrames
  /\ wlog = [wrote |-> TRUE, flushes |-> 1, dirty |-> FALSE, stalled |-> FALSE]
  /\ wmet = "Flush"
  /\ wlast = SinkReady
  /\ write_buffer = << >>
  /\ Len(sink) = Len(Encoded(cfg, accepted))
  /\ Len(accepted[MaxFrames]) = MaxLen

(***************************************************************************)
(* C23.  EOF is sticky: eof_seen is true exactly when a read of the        *)
(* transport has returned Ready(0), the end of its script; once true it    *)
(* stays true, and a later poll makes no transport read, leaves the script *)
(* and the buffer as they are, yields nothing, and returns what the        *)
(* decoder's eof gives on the buffer: Ready(None) when it is empty, the    *)
(* error UnexpectedEof when bytes remain.                                  *)
(***************************************************************************)
C23_EofSticky ==
  /\ [](eof <=> closed)
  /\ [][ /\ eof => eof'
         /\ (~eof /\ eof') => (reads' >= 1 /\ closed')
         /\ (eof /\ last' # Idle) =>
               /\ reads' = 0
               /\ wire' = wire
               /\ buffer' = buffer
               /\ out' = out
               /\ last' = (IF buffer = << >> THEN ReadyNone
                           ELSE Failed("UnexpectedEof")) ]_vars

\* A poll after EOF, on a frame cut short: no read, the error again.
C23_Witness ==
  /\ eof
  /\ closed
  /\ reads = 0
  /\ last = Failed("UnexpectedEof")
  /\ buffer # << >>
  /\ state.kind = "Data"
  /\ Len(out) = MaxFrames - 1
  /\ wire # << >>

(***************************************************************************)
(* C24.  Drain progress: in a poll_complete no write_buf leaves the buffer *)
(* as long as it was with the loop going on; the bytes that left the       *)
(* buffer are those the transport took, and a call in which it took none   *)
(* returns NotReady with the buffer as it was.  Over a transport that      *)
(* blocks or accepts, and does not block for ever, repeated poll_complete  *)
(* calls lead from any buffered bytes to a poll_complete that returns      *)
(* Ready with the write buffer empty.                                      *)
(***************************************************************************)
C24_DrainProgress ==
  /\ [][ wcall' = "poll_complete" =>
           /\ ~wlog'.stalled
           /\ Len(write_buffer') <= Len(write_buffer)
           /\ write_buffer = Drop(sink', Len(sink)) \o write_buffer'
           /\ (write_buffer # << >> /\ sink' = sink) => wlast' = NotReady ]_vars
  /\ (write_buffer # << >>) ~>
       (wcall = "poll_complete" /\ wlast = SinkReady /\ write_buffer = << >>)

\* All frames sent, and drained to the last byte by a poll_complete that
\* wrote and flushed.
C24_Witness ==
  /\ wcall = "poll_complete"
  /\ wlast = SinkReady
  /\ write_buffer = << >>
  /\ Len(accepted) = MaxFrames
  /\ sink = Encoded(cfg, accepted)
  /\ Len(accepted[1]) = MaxLen
  /\ wlog.wrote

(***************************************************************************)
(* C25.  Direction independence in Framed: a poll leaves the write buffer  *)
(* and the bytes the transport accepted as they are, calls no write_buf    *)
(* and no flush, and accepts no frame; a start_send or poll_complete       *)
(* leaves the read buffer, eof_seen, the decoder's state, the inbound      *)
(* bytes and the frames yielded as they are and makes no transport read.   *)
(***************************************************************************)
C25_DirectionIndependence ==
  [][ /\ wcall' = "poll" =>
            /\ write_buffer' = write_buffer
            /\ sink' = sink
            /\ wlog' = NoLog
            /\ accepted' = accepted
      /\ wcall' \in {"start_send", "poll_complete"} =>
            /\ buffer' = buffer
            /\ eof' = eof
            /\ state' = state
            /\ reads' = 0
            /\ wire' = wire
            /\ closed' = closed
            /\ out' = out ]_vars

\* A frame yielded by a poll while bytes of an accepted frame are partly
\* written and partly buffered.
C25_Witness ==
  /\ wcall = "poll"
  /\ last = ReadyFrame(sent[1])
  /\ reads >= 1
  /\ Len(accepted) = 1
  /\ write_buffer # << >>
  /\ sink # << >>
  /\ sink \o write_buffer = Encoded(cfg, accepted)

====
